---- MODULE Spec2Model ----
(***************************************************************************)
(* Landscape API client: legacy-action dispatch, typed responses and the   *)
(* polymorphic script decoder, together with the httptest servers of the   *)
(* client tests and the CLI script actions that call the client.           *)
(*                                                                         *)
(* A string is a sequence of tokens.  A token is either one of the         *)
(* reserved characters of Alphabet, the byte "0xFF" (which is no valid     *)
(* UTF-8), or an atom: a run of unreserved characters ("CreateScript",     *)
(* "42", "title") that percent-encoding and JSON escaping leave unchanged. *)
(***************************************************************************)
EXTENDS Integers, Sequences, FiniteSets, TLC

\* ------------------------------------------------------------------ bounds
\* Longest caller-supplied parameter value, in tokens.
MaxLen == 2
\* Most values a caller supplies under one parameter name.
MaxVals == 2

\* ----------------------------------------------------------------- strings
Alphabet == {"a", " ", "&", "%", "+", "=", "0xFF"}

RECURSIVE StringsUpTo(_)
StringsUpTo(n) ==
    IF n = 0 THEN {<<>>}
    ELSE LET shorter == StringsUpTo(n - 1)
         IN  shorter \cup {Append(s, c) : s \in shorter, c \in Alphabet}

Values == StringsUpTo(MaxLen)

RECURSIVE Concat(_)
Concat(ss) == IF ss = <<>> THEN <<>> ELSE Head(ss) \o Concat(Tail(ss))

\* ----------------------------------------------------- net/url query codec
\* url.QueryEscape: space becomes "+", every other reserved byte "%XX".
EscapeToken(c) ==
    CASE c = " " -> <<"+">>
      [] c = "&" -> <<"%", "2", "6">>
      [] c = "%" -> <<"%", "2", "5">>
      [] c = "+" -> <<"%", "2", "B">>
      [] c = "=" -> <<"%", "3", "D">>
      [] c = "$" -> <<"%", "2", "4">>
      [] c = "0xFF" -> <<"%", "F", "F">>
      [] OTHER   -> <<c>>

QueryEscape(s) == Concat([i \in 1..Len(s) |-> EscapeToken(s[i])])

\* The byte a "%XX" triple stands for.
HexByte(h, l) ==
    CASE h = "2" /\ l = "6" -> "&"
      [] h = "2" /\ l = "5" -> "%"
      [] h = "2" /\ l \in {"B", "b"} -> "+"
      [] h = "3" /\ l \in {"D", "d"} -> "="
      [] h = "2" /\ l = "0" -> " "
      [] h = "2" /\ l = "4" -> "$"
      [] h \in {"F", "f"} /\ l \in {"F", "f"} -> "0xFF"
      [] OTHER              -> "?"

\* A hexadecimal digit.  A token after "%" is read as one byte.
IsHex(c) ==
    c \in {"0", "1", "2", "3", "4", "5", "6", "7", "8", "9",
           "a", "b", "c", "d", "e", "f", "A", "B", "C", "D", "E", "F"}

\* Whether every "%" of s is followed by two hexadecimal digits.
RECURSIVE EscapesOk(_)
EscapesOk(s) ==
    IF s = <<>> THEN TRUE
    ELSE IF Head(s) = "%"
         THEN /\ Len(s) >= 3
              /\ IsHex(s[2]) /\ IsHex(s[3])
              /\ EscapesOk(SubSeq(s, 4, Len(s)))
    ELSE EscapesOk(Tail(s))

\* The text of s with every "%XX" replaced by its byte, "+" kept.
RECURSIVE UnescapeKeepPlus(_)
UnescapeKeepPlus(s) ==
    IF s = <<>> THEN <<>>
    ELSE IF Head(s) = "%" /\ Len(s) >= 3
         THEN <<HexByte(s[2], s[3])>> \o UnescapeKeepPlus(SubSeq(s, 4, Len(s)))
    ELSE <<Head(s)>> \o UnescapeKeepPlus(Tail(s))

\* The text of s with "+" replaced by space and every "%XX" by its byte.
RECURSIVE Unescape(_)
Unescape(s) ==
    IF s = <<>> THEN <<>>
    ELSE IF Head(s) = "+" THEN <<" ">> \o Unescape(Tail(s))
    ELSE IF Head(s) = "%" /\ Len(s) >= 3
         THEN <<HexByte(s[2], s[3])>> \o Unescape(SubSeq(s, 4, Len(s)))
    ELSE <<Head(s)>> \o Unescape(Tail(s))

\* QueryUnescape leaving "+" as it is, as url.PathUnescape does.
QueryUnescapeKeepPlus(s) ==
    IF EscapesOk(s) THEN [err |-> FALSE, s |-> UnescapeKeepPlus(s)]
    ELSE [err |-> TRUE, s |-> <<>>]

\* url.QueryUnescape: "+" becomes space, "%XX" the byte it stands for; a "%"
\* that is not followed by two hexadecimal digits is an EscapeError.
QueryUnescape(s) ==
    IF EscapesOk(s) THEN [err |-> FALSE, s |-> Unescape(s)]
    ELSE [err |-> TRUE, s |-> <<>>]

\* Parameter names, in the byte order url.Values.Encode sorts them into.
KeyOrder ==
    << "action", "code", "destination_title", "file", "filename",
       "script_id", "script_type", "title", "username", "version" >>

Keys == {KeyOrder[i] : i \in 1..Len(KeyOrder)}

\* url.Values: every name maps to its sequence of values, <<>> when absent.
NoValues == [k \in Keys |-> <<>>]

\* url.Values.Add
AddValue(vals, k, v) == [vals EXCEPT ![k] = Append(@, v)]

\* url.Values.Get: the first value of the name, "" when there is none.
Get(vals, k) == IF vals[k] = <<>> THEN <<>> ELSE vals[k][1]

\* "k=v1&k=v2" for one name.
RECURSIVE EncodeKey(_, _)
EncodeKey(k, vs) ==
    IF vs = <<>> THEN <<>>
    ELSE <<k, "=">> \o QueryEscape(Head(vs))
         \o (IF Tail(vs) = <<>> THEN <<>> ELSE <<"&">> \o EncodeKey(k, Tail(vs)))

\* url.Values.Encode: names in sorted order, pairs joined by "&".
RECURSIVE EncodeFrom(_, _)
EncodeFrom(vals, i) ==
    IF i > Len(KeyOrder) THEN <<>>
    ELSE LET here == EncodeKey(KeyOrder[i], vals[KeyOrder[i]])
             rest == EncodeFrom(vals, i + 1)
         IN  IF here = <<>> THEN rest
             ELSE IF rest = <<>> THEN here
             ELSE here \o <<"&">> \o rest

Encode(vals) == EncodeFrom(vals, 1)

\* Index of the first "&" of s, 0 when there is none.
RECURSIVE IndexAmp(_, _)
IndexAmp(s, i) ==
    IF i > Len(s) THEN 0 ELSE IF s[i] = "&" THEN i ELSE IndexAmp(s, i + 1)

\* One "k=v" pair of a raw query, added to vals.  A pair without "=" is a
\* name with an empty value; a pair whose name or value does not unescape
\* is skipped, and so is a name no handler reads.
ParsePair(vals, p) ==
    IF p = <<>> THEN vals
    ELSE IF p[1] \notin Keys THEN vals
    ELSE IF Len(p) >= 2 /\ p[2] = "="
         THEN LET v == QueryUnescape(SubSeq(p, 3, Len(p)))
              IN  IF v.err THEN vals ELSE AddValue(vals, p[1], v.s)
    ELSE IF Len(p) = 1 THEN AddValue(vals, p[1], <<>>)
    ELSE vals

\* url.ParseQuery, as r.URL.Query() applies it to the raw query.
RECURSIVE ParseQueryInto(_, _)
ParseQueryInto(vals, raw) ==
    IF raw = <<>> THEN vals
    ELSE LET i == IndexAmp(raw, 1)
         IN  IF i = 0 THEN ParsePair(vals, raw)
             ELSE ParseQueryInto(ParsePair(vals, SubSeq(raw, 1, i - 1)),
                                 SubSeq(raw, i + 1, Len(raw)))

ParseQuery(raw) == ParseQueryInto(NoValues, raw)

\* -------------------------------------------------------- encoding/json
\* A JSON document is [k, n, s, f]: its kind, its number, its string text
\* and, for an object, its fields.  A field is a leaf [k, n, s]; a nested
\* object keeps its id in n, its name in s and in has the members it
\* carries, an array only its shape (empty, of strings, of objects).  On the
\* wire string text is escaped.
Fields == {"id", "title", "creator", "created_by", "attachments", "message"}

Absent == [k |-> "absent", n |-> 0, s |-> <<>>, has |-> {}]
Num(n) == [k |-> "num", n |-> n, s |-> <<>>, has |-> {}]
Str(s) == [k |-> "str", n |-> 0, s |-> s, has |-> {}]
Obj(n, s) == [k |-> "obj", n |-> n, s |-> s, has |-> {"id", "name"}]
ObjWithEmail(n, s) ==
    [k |-> "obj", n |-> n, s |-> s, has |-> {"id", "name", "email"}]
ObjIdOnly(n) == [k |-> "obj", n |-> n, s |-> <<>>, has |-> {"id"}]
Arr(shape) == [k |-> shape, n |-> 0, s |-> <<>>, has |-> {}]

NoFields == [x \in Fields |-> Absent]

Doc(k, n, s, f) == [k |-> k, n |-> n, s |-> s, f |-> f]
EmptyBody == Doc("empty", 0, <<>>, NoFields)
InvalidBody == Doc("invalid", 0, <<>>, NoFields)
NilDoc == Doc("nil", 0, <<>>, NoFields)
StrDoc(s) == Doc("str", 0, s, NoFields)
ObjDoc(f) == Doc("obj", 0, <<>>, f)

\* A string coerced to valid UTF-8: every invalid byte becomes the
\* replacement rune U+FFFD.
IsValidUTF8(s) == \A i \in 1..Len(s) : s[i] # "0xFF"

ToValidUTF8(s) == [i \in 1..Len(s) |-> IF s[i] = "0xFF" THEN "U+FFFD" ELSE s[i]]

\* json.Encoder escapes "&" (HTML escaping is on by default) and writes an
\* invalid byte as the escape of the replacement rune.
JSONEscapeToken(c) ==
    CASE c = "&" -> <<"\\", "u0026">>
      [] c = "0xFF" -> <<"\\", "ufffd">>
      [] OTHER -> <<c>>

JSONEscape(s) == Concat([i \in 1..Len(s) |-> JSONEscapeToken(s[i])])

RECURSIVE JSONUnescape(_)
JSONUnescape(s) ==
    IF s = <<>> THEN <<>>
    ELSE IF Head(s) = "\\" /\ Len(s) >= 2 /\ s[2] = "u0026"
         THEN <<"&">> \o JSONUnescape(SubSeq(s, 3, Len(s)))
    ELSE IF Head(s) = "\\" /\ Len(s) >= 2 /\ s[2] = "ufffd"
         THEN <<"U+FFFD">> \o JSONUnescape(SubSeq(s, 3, Len(s)))
    ELSE <<Head(s)>> \o JSONUnescape(Tail(s))

\* json.NewEncoder(w).Encode(v): the document as written to the wire.
MarshalLeaf(l) == [l EXCEPT !.s = JSONEscape(@)]

Marshal(d) ==
    [d EXCEPT !.s = JSONEscape(@), !.f = [x \in Fields |-> MarshalLeaf(d.f[x])]]

\* The JSON value a document stands for once encoded: its strings coerced
\* to valid UTF-8.
CoerceLeaf(l) == [l EXCEPT !.s = ToValidUTF8(@)]

Coerce(d) ==
    [d EXCEPT !.s = ToValidUTF8(@), !.f = [x \in Fields |-> CoerceLeaf(d.f[x])]]

\* The V1Script value of the test handlers: Id and Title set, the optional
\* fields nil and so omitted from the document.
V1ScriptDoc(id, title) ==
    ObjDoc([NoFields EXCEPT !["id"] = Num(id), !["title"] = Str(title)])

\* ------------------------------------------------- polymorphic decoder
\* What an accessor returns: err is "" for a nil error; Has holds the
\* members of Creator or CreatedBy that are non-nil pointers.
NoScript ==
    [err |-> "decode", Id |-> 0, Title |-> <<>>, Creator |-> "nil",
     CreatedBy |-> "nil", Attachments |-> "nil", Text |-> <<>>, Has |-> {}]

\* An optional field of the wanted shape; a field that is absent, null or
\* of another shape is left at its zero value, nil.
Optional(l, kinds) == IF l.k \in kinds THEN l.k ELSE "nil"

OptionalHas(l) == IF l.k = "obj" THEN l.has ELSE {}

\* The mandatory fields: id an integer, title a string.
Mandatory(raw) ==
    /\ raw.k = "obj"
    /\ raw.f["id"].k = "num"
    /\ raw.f["title"].k = "str"

\* AsV1Script refusing a payload that carries the created_by of the V2 shape.
AsV1ScriptStrict(raw) ==
    IF Mandatory(raw) /\ raw.f["created_by"].k = "absent"
    THEN [NoScript EXCEPT !.err = "",
                          !.Id = raw.f["id"].n,
                          !.Title = JSONUnescape(raw.f["title"].s),
                          !.Creator = Optional(raw.f["creator"], {"obj"}),
                          !.Has = OptionalHas(raw.f["creator"]),
                          !.Attachments = Optional(raw.f["attachments"],
                                                   {"arrEmpty", "arrStr"})]
    ELSE NoScript

\* AsV1Script: fails only on the mandatory fields; creator and attachments
\* (an array of file names) are optional, and created_by is no field of the
\* V1 shape.
AsV1Script(raw) ==
    IF Mandatory(raw)
    THEN [NoScript EXCEPT !.err = "",
                          !.Id = raw.f["id"].n,
                          !.Title = JSONUnescape(raw.f["title"].s),
                          !.Creator = Optional(raw.f["creator"], {"obj"}),
                          !.Has = OptionalHas(raw.f["creator"]),
                          !.Attachments = Optional(raw.f["attachments"],
                                                   {"arrEmpty", "arrStr"})]
    ELSE NoScript

\* AsV2Script: fails only on the mandatory fields; created_by and
\* attachments (an array of attachment objects) are optional, and creator
\* is no field of the V2 shape.
AsV2Script(raw) ==
    IF Mandatory(raw)
    THEN [NoScript EXCEPT !.err = "",
                          !.Id = raw.f["id"].n,
                          !.Title = JSONUnescape(raw.f["title"].s),
                          !.CreatedBy = Optional(raw.f["created_by"], {"obj"}),
                          !.Has = OptionalHas(raw.f["created_by"]),
                          !.Attachments = Optional(raw.f["attachments"],
                                                   {"arrEmpty", "arrObj"})]
    ELSE NoScript

\* AsLegacyScriptAttachment: the payload as a bare JSON string.
AsLegacyScriptAttachment(raw) ==
    IF raw.k = "str"
    THEN [NoScript EXCEPT !.err = "", !.Text = JSONUnescape(raw.s)]
    ELSE NoScript

\* ---------------------------------------------------------------- HTTP
\* A request as the transport receives it.  auth is the Authorization
\* header, <<>> while unset.
Request(method, path, rawQuery) ==
    [method |-> method, path |-> path, rawQuery |-> rawQuery, auth |-> <<>>]

\* What a handler produced: the status, the body on the wire, the JSON
\* value the body stands for, and whether the handler aborted the test.
WriteHeader(status) ==
    [status |-> status, body |-> EmptyBody, sent |-> EmptyBody, fatal |-> FALSE]

WriteJSON(status, doc) ==
    [status |-> status, body |-> Marshal(doc), sent |-> Coerce(doc),
     fatal |-> FALSE]

Fatalf == [status |-> 0, body |-> EmptyBody, sent |-> EmptyBody, fatal |-> TRUE]

NoResp == WriteHeader(0)

\* strconv.Atoi whose error is ignored.
AtoiOkIgnored(a) == TRUE

\* strconv.Itoa and strconv.Atoi on the script-id strings of the model.
Itoa(n) ==
    CASE n = 1 -> "1" [] n = 7 -> "7" [] n = 42 -> "42" [] n = 99 -> "99"
      [] n = -3 -> "-3" [] OTHER -> "0"

AtoiOk(a) == a \in {"1", "7", "007", "+7", "42", "99", "-3", "0"}

Atoi(a) ==
    CASE a = "1" -> 1 [] a \in {"7", "007", "+7"} -> 7 [] a = "42" -> 42
      [] a = "99" -> 99 [] a = "-3" -> -3 [] OTHER -> 0

\* ---------------------------------------------------- httptest handlers
ActionNames ==
    {"CreateScript", "CreateScriptAttachment", "EditScript", "CopyScript",
     "RemoveScript", "RemoveScriptAttachment"}

\* The CreateScriptAttachment result as an attachment object.
createAttachmentRespObject ==
    ObjDoc([NoFields EXCEPT !["id"] = Num(1)])

\* What the handler answers CreateScriptAttachment with: the file name.
createAttachmentResp == StrDoc(<<"note.txt">>)

\* legacyHandler without the checks of version and action.
legacyHandlerUnchecked(r) ==
    LET q == ParseQuery(r.rawQuery)
    IN  IF r.method # "POST" THEN Fatalf
        ELSE WriteJSON(200, V1ScriptDoc(42, Get(q, "title")))

\* TestInvokeLegacyAction: the handler of "/api" and "/api/".
legacyHandler(r) ==
    LET q == ParseQuery(r.rawQuery)
        action == Get(q, "action")
    IN  IF r.method # "POST" THEN Fatalf
        ELSE IF Get(q, "version") = <<>> THEN WriteHeader(400)
        ELSE IF action = <<>> THEN WriteHeader(400)
        ELSE CASE action = <<"CreateScript">> ->
                      WriteJSON(200, V1ScriptDoc(42, Get(q, "title")))
               [] action = <<"CreateScriptAttachment">> ->
                      WriteJSON(200, createAttachmentResp)
               [] action = <<"EditScript">> ->
                      WriteJSON(200, V1ScriptDoc(42, Get(q, "title")))
               [] action = <<"CopyScript">> ->
                      WriteJSON(200, V1ScriptDoc(99, Get(q, "destination_title")))
               [] action = <<"RemoveScript">> -> WriteHeader(204)
               [] action = <<"RemoveScriptAttachment">> -> WriteHeader(204)
               [] OTHER -> WriteHeader(400)

\* getScriptHandler writing the status and no body.
getScriptHandlerNoBody(r) ==
    IF r.method # "GET" THEN Fatalf ELSE WriteHeader(200)

\* TestGetScript: the handler of "/api/scripts/1".
getScriptHandler(r) ==
    IF r.method # "GET" THEN Fatalf
    ELSE WriteJSON(200, V1ScriptDoc(1, <<"diagnostic", " ", "script">>))

\* archiveHandler answering 200 with a JSON body.
archiveHandlerWithBody(r) ==
    IF r.method # "POST" THEN Fatalf ELSE WriteJSON(200, StrDoc(<<"ok">>))

\* TestArchiveAndRedactScript: "/api/scripts/1:archive" and ":redact".
archiveHandler(r) == IF r.method # "POST" THEN Fatalf ELSE WriteHeader(204)

redactHandler(r) == IF r.method # "POST" THEN Fatalf ELSE WriteHeader(204)

\* TestGetScriptAttachment: "/api/scripts/1/attachments/1".
attachmentHandler(r) ==
    IF r.method # "GET" THEN Fatalf
    ELSE WriteJSON(200, StrDoc(<<"file", " ", "contents">>))

\* notFoundHandler without WriteHeader(http.StatusNotFound).
notFoundHandlerNoStatus(r) ==
    WriteJSON(200, ObjDoc([NoFields EXCEPT
                              !["message"] = Str(<<"not", " ", "found">>)]))

\* TestGetScriptAttachment: "/api/scripts/99/attachments/1".
notFoundHandler(r) ==
    WriteJSON(404, ObjDoc([NoFields EXCEPT
                              !["message"] = Str(<<"not", " ", "found">>)]))

\* http.NotFound: "404 page not found" as plain text.
NotFound ==
    [status |-> 404, body |-> InvalidBody, sent |-> InvalidBody, fatal |-> FALSE]

\* Whether a path lies under the subtree pattern "/api/".
UnderApi(path) == path # <<>> /\ path[1] \in {"/api/", "/api/scripts/"}

\* The ServeMux of the server of each test: the handler registered for the
\* path (under "/api/" a whole subtree), http.NotFound for any other path.
ServeMux(test, r) ==
    CASE test = "TestInvokeLegacyAction" ->
             IF r.path = <<"/api">> \/ UnderApi(r.path)
             THEN legacyHandler(r) ELSE NotFound
      [] test = "TestGetScript" ->
             IF r.path = <<"/api/scripts/", "1">>
             THEN getScriptHandler(r) ELSE NotFound
      [] test = "TestArchiveAndRedactScript" ->
             IF r.path = <<"/api/scripts/", "1", ":archive">>
             THEN archiveHandler(r)
             ELSE IF r.path = <<"/api/scripts/", "1", ":redact">>
             THEN redactHandler(r) ELSE NotFound
      [] test = "TestGetScriptAttachment" ->
             IF r.path = <<"/api/scripts/", "1", "/attachments/", "1">>
             THEN attachmentHandler(r)
             ELSE IF r.path = <<"/api/scripts/", "99", "/attachments/", "1">>
             THEN notFoundHandler(r) ELSE NotFound
      [] OTHER -> NotFound

\* ------------------------------------------------------ the remote service
\* The status codes and payloads the Landscape service answers with.  A 204
\* carries no body.
Statuses == {200, 400, 404, 500, 418}

ScriptDocs ==
    { ObjDoc([NoFields EXCEPT !["id"] = i, !["title"] = t, !["creator"] = c,
                              !["created_by"] = b, !["attachments"] = a]) :
        i \in {Absent, Num(7), Str(<<"7">>)},
        t \in {Absent, Str(<<"a", "&", "b">>), Num(5)},
        c \in {Absent, Obj(3, <<"jim">>)},
        b \in {Absent, Obj(5, <<"jim">>)},
        a \in {Absent, Arr("arrEmpty"), Arr("arrStr"), Arr("arrObj")} }

ErrorDocs ==
    { ObjDoc([NoFields EXCEPT !["message"] = m]) :
        m \in {Absent, Str(<<"not", " ", "found">>), Str(<<"a", "&">>), Num(1)} }

OtherDocs ==
    { StrDoc(<<"note.txt">>), StrDoc(<<"a", "&">>), Doc("num", 1, <<>>, NoFields),
      Doc("arr", 0, <<>>, NoFields), Doc("null", 0, <<>>, NoFields) }

\* Scripts whose creator carries an email, or whose created_by no name.
CreatorDocs ==
    { ObjDoc([NoFields EXCEPT !["id"] = Num(7), !["title"] = Str(<<"a">>),
                              !["creator"] = ObjWithEmail(3, <<"jim">>)]),
      ObjDoc([NoFields EXCEPT !["id"] = Num(7), !["title"] = Str(<<"a">>),
                              !["created_by"] = ObjIdOnly(5)]) }

RemoteDocs == ScriptDocs \cup CreatorDocs \cup ErrorDocs \cup OtherDocs

RemoteResponses ==
    {WriteJSON(st, d) : st \in Statuses, d \in RemoteDocs}
    \cup {[status |-> st, body |-> b, sent |-> b, fatal |-> FALSE] :
            st \in Statuses, b \in {InvalidBody, EmptyBody}}
    \cup {WriteHeader(204)}

\* ------------------------------------------------------------ the client
Version == <<"2011-08-01">>

NoParams == [Version |-> <<>>, Action |-> <<>>]

\* LegacyActionParams: the action under the fixed API version.
LegacyActionParams(action) == [Version |-> Version, Action |-> action]

\* NewInvokeLegacyActionRequest: a POST whose query always carries version
\* and action.
NewInvokeLegacyActionRequest(params) ==
    Request("POST", <<"/api/">>,
            Encode([NoValues EXCEPT !["version"] = <<params.Version>>,
                                    !["action"] = <<params.Action>>]))

NewGetScriptRequest(id) == Request("GET", <<"/api/scripts/", Itoa(id)>>, <<>>)

NewArchiveScriptRequest(id) ==
    Request("POST", <<"/api/scripts/", Itoa(id), ":archive">>, <<>>)

NewRedactScriptRequest(id) ==
    Request("POST", <<"/api/scripts/", Itoa(id), ":redact">>, <<>>)

NewGetScriptAttachmentRequest(id, attId) ==
    Request("GET", <<"/api/scripts/", Itoa(id), "/attachments/", Itoa(attId)>>, <<>>)

\* The request editor the tests build their client with.
authEditor(req) == [req EXCEPT !.auth = <<"Bearer", " ", "test-token">>]

\* The hook of a client built on a credential provider: it signs the request.
accessKeyProvider(req) == [req EXCEPT !.auth = <<"signature">>]

\* The hook the client of the call was built with: authEditor in the tests,
\* the credential provider's elsewhere.
clientEditor(c, req) ==
    IF c.server = "httptest" THEN authEditor(req) ELSE accessKeyProvider(req)

\* EncodeQueryRequestEditor: the caller's values merged into the query the
\* request already has.
MergeValues(q, values) == [k \in Keys |-> q[k] \o values[k]]

EncodeQueryRequestEditor(values, req) ==
    [req EXCEPT !.rawQuery = Encode(MergeValues(ParseQuery(@), values))]

\* The request of a call as it reaches the transport: built, then edited by
\* the client's hook, then by the editors of the call.
BuildRequest(c) ==
    CASE c.op = "InvokeLegacyAction" ->
             EncodeQueryRequestEditor(c.values,
                 clientEditor(c, NewInvokeLegacyActionRequest(c.params)))
      [] c.op = "GetScript" -> clientEditor(c, NewGetScriptRequest(c.id))
      [] c.op = "ArchiveScript" -> clientEditor(c, NewArchiveScriptRequest(c.id))
      [] c.op = "RedactScript" -> clientEditor(c, NewRedactScriptRequest(c.id))
      [] c.op = "GetScriptAttachment" ->
             clientEditor(c, NewGetScriptAttachmentRequest(c.id, c.attId))

\* What a call returns to its caller.  err is "" for a nil error; JSON200 is
\* NilDoc and JSON404.set FALSE for a nil pointer.
NoJSON404 == [set |-> FALSE, hasMessage |-> FALSE, Message |-> <<>>]

NoRet ==
    [hasResp |-> FALSE, err |-> "", StatusCode |-> 0, Body |-> EmptyBody,
     JSON200 |-> NilDoc, JSON404 |-> NoJSON404, decoded |-> FALSE]

\* RawReturn turning a 4xx or 5xx status into an error.
RawReturnStatusError(fails, rsp) ==
    IF fails THEN [NoRet EXCEPT !.err = "transport"]
    ELSE IF rsp.status >= 400 THEN [NoRet EXCEPT !.err = "status"]
    ELSE [NoRet EXCEPT !.hasResp = TRUE, !.StatusCode = rsp.status,
                       !.Body = rsp.body]

\* The raw call: the response as received, or the transport's error.
RawReturn(fails, rsp) ==
    IF fails THEN [NoRet EXCEPT !.err = "transport"]
    ELSE [NoRet EXCEPT !.hasResp = TRUE, !.StatusCode = rsp.status,
                       !.Body = rsp.body]

ValidJSON(b) == b.k \notin {"empty", "invalid", "nil"}

\* Whether the 200 payload of the operation decodes from the body: a script
\* or legacy result is a union that keeps any JSON value, an attachment is
\* a string.
Decodes200(op, b) ==
    CASE op \in {"InvokeLegacyAction", "GetScript"} -> ValidJSON(b)
      [] op = "GetScriptAttachment" -> b.k = "str"
      [] OTHER -> FALSE

Has200(op) == op \in {"InvokeLegacyAction", "GetScript", "GetScriptAttachment"}

\* The error envelope {message?: string} of a 404.
Decodes404(b) == b.k = "obj" /\ b.f["message"].k \in {"absent", "null", "str"}

ErrorEnvelope(b) ==
    [set |-> TRUE, hasMessage |-> b.f["message"].k = "str",
     Message |-> JSONUnescape(b.f["message"].s)]

\* Parse...Response: the raw response kept, and the body decoded into the
\* payload the status code selects.  No other status is decoded.
ParseResponse(op, rsp) ==
    LET raw == RawReturn(FALSE, rsp)
    IN  IF rsp.status = 200 /\ Has200(op)
        THEN IF Decodes200(op, rsp.body)
             THEN [raw EXCEPT !.JSON200 = rsp.body, !.decoded = TRUE]
             ELSE [raw EXCEPT !.err = "decode", !.decoded = TRUE]
        ELSE IF rsp.status = 404
        THEN IF Decodes404(rsp.body)
             THEN [raw EXCEPT !.JSON404 = ErrorEnvelope(rsp.body), !.decoded = TRUE]
             ELSE [raw EXCEPT !.err = "decode", !.decoded = TRUE]
        ELSE raw

\* The ...WithResponse call: the transport's error, or the parsed response.
TypedReturn(op, fails, rsp) ==
    IF fails THEN RawReturn(TRUE, rsp) ELSE ParseResponse(op, rsp)

\* --------------------------------------------------------------- inputs
\* Lists of values under one name: the first any value, the others "&".
ValueLists ==
    {<<v>> \o [i \in 1..m |-> <<"&">>] : v \in Values, m \in 0..(MaxVals - 1)}

\* The parameter maps a caller hands to EncodeQueryRequestEditor, those
\* that themselves name version or action among them.
ParamMaps ==
    {NoValues}
    \cup {[NoValues EXCEPT !["version"] = <<v>>] : v \in {Version, <<"1">>}}
    \cup {[NoValues EXCEPT !["action"] = << <<"RemoveScript">> >>,
                           !["title"] = << <<"a">> >>]}
    \cup {[NoValues EXCEPT !["title"] = vl] : vl \in ValueLists}
    \cup {[NoValues EXCEPT !["destination_title"] = vl,
                           !["script_id"] = << <<"42">> >>] : vl \in ValueLists}

\* The maps of the subtests of TestInvokeLegacyAction.
TestMaps ==
    { [NoValues EXCEPT !["title"] = << <<"example">> >>,
                       !["code"] = << <<"ZWNobyAiSGVsbG8i">> >>],
      [NoValues EXCEPT !["title"] = << <<"new", " ", "script">> >>,
                       !["code"] = << <<"ZWNobyAiSGVsbG8i">> >>],
      [NoValues EXCEPT !["script_id"] = << <<"42">> >>,
                       !["title"] = << <<"edited", " ", "title">> >>],
      [NoValues EXCEPT !["script_id"] = << <<"42">> >>,
                       !["destination_title"] = << <<"copy", " ", "title">> >>],
      [NoValues EXCEPT !["script_id"] = << <<"42">> >>],
      [NoValues EXCEPT !["script_id"] = << <<"42">> >>,
                       !["filename"] = << <<"note.txt">> >>],
      [NoValues EXCEPT !["script_id"] = << <<"42">> >>,
                       !["file"] = << <<"note.txt", "$", "$", "Zm9v">> >>] }

\* The parameters of the tests: LegacyActionParams of a name, or the struct
\* with the version or the action left empty.
TestParams ==
    {LegacyActionParams(<<a>>) : a \in ActionNames \cup {"Bogus"}}
    \cup {[Version |-> <<>>, Action |-> <<"CreateScript">>],
          [Version |-> Version, Action |-> <<>>]}

\* base64.StdEncoding.EncodeToString on the script bodies of the model.
Codes == {"hi", ">>>"}

Base64(code) ==
    CASE code = "hi" -> <<"aGk", "=">>
      [] code = ">>>" -> <<"Pj4", "+">>
      [] OTHER -> <<>>

CliTitles == {<<>>, <<"new", " ", "script">>}
CliArgs == {<<>>, <<"">>, <<"42">>, <<"007">>, <<"abc">>, <<"1.5">>, <<"", "42">>}
CliIds == {1, 42}

Call(entry, op, typed, server, params, values, id, attId) ==
    [entry |-> entry, op |-> op, typed |-> typed, server |-> server,
     params |-> params, values |-> values, id |-> id, attId |-> attId]

NoCall == Call("none", "none", FALSE, "none", NoParams, NoValues, 0, 0)

CliEntries ==
    {"createScriptAction", "editScriptAction", "getScriptAction",
     "getScriptAttachmentAction", "createScriptAttachmentAction"}

\* ---------------------------------------------------------------- state
VARIABLES
    pc,      \* where the invocation stands
    call,    \* the invocation: entry point, operation and arguments
    wire,    \* the requests handed to the transport, in order
    failed,  \* whether the transport failed
    resp,    \* the response the transport delivered
    ret,     \* what the client call returned
    exit,    \* the error a CLI action returned, "none" before it returns
    out,     \* the responses written by WriteResponseToRoot
    acc,     \* the last accessor called on the payload, and its result
    cmd      \* what a CLI action was run with: the context's client, the arguments

vars == <<pc, call, wire, failed, resp, ret, exit, out, acc, cmd>>

\* The context and the command of a CLI action: whether the context holds
\* the API client, and the positional arguments.
Cmd(api, args) == [api |-> api, args |-> args]

NoCmd == Cmd(FALSE, <<>>)

NoAcc == [fn |-> "none", res |-> NoScript]

Init ==
    /\ pc = "idle"
    /\ call = NoCall
    /\ wire = <<>>
    /\ failed = FALSE
    /\ resp = NoResp
    /\ ret = NoRet
    /\ exit = "none"
    /\ out = <<>>
    /\ acc = NoAcc
    /\ cmd = NoCmd

\* A caller reaches the point of its client call.  What it was run with
\* (cmd) is set by the caller.
Enter(c) ==
    /\ pc = "idle"
    /\ pc' = "call"
    /\ call' = c
    /\ UNCHANGED <<wire, failed, resp, ret, exit, out, acc>>

\* A CLI action returns err before any client call.
Reject(entry, err) ==
    /\ pc = "idle"
    /\ pc' = "done"
    /\ call' = [NoCall EXCEPT !.entry = entry]
    /\ exit' = err
    /\ UNCHANGED <<wire, failed, resp, ret, out, acc>>

\* ------------------------------------------------------- the test callers
TestInvokeLegacyAction ==
    /\ pc = "idle"
    /\ cmd' = cmd
    /\ \E params \in TestParams, typed \in BOOLEAN,
          values \in ParamMaps \cup TestMaps :
        Enter(Call("TestInvokeLegacyAction", "InvokeLegacyAction", typed,
                   "httptest", params, values, 0, 0))

TestGetScript ==
    /\ pc = "idle"
    /\ cmd' = cmd
    /\ \E typed \in BOOLEAN :
        Enter(Call("TestGetScript", "GetScript", typed, "httptest", NoParams,
                   NoValues, 1, 0))

TestArchiveAndRedactScript ==
    /\ pc = "idle"
    /\ cmd' = cmd
    /\ \E typed \in BOOLEAN, op \in {"ArchiveScript", "RedactScript"} :
        Enter(Call("TestArchiveAndRedactScript", op, typed, "httptest",
                   NoParams, NoValues, 1, 0))

TestGetScriptAttachment ==
    /\ pc = "idle"
    /\ cmd' = cmd
    /\ \E typed \in BOOLEAN, id \in {1, 99} :
        Enter(Call("TestGetScriptAttachment", "GetScriptAttachment", typed,
                   "httptest", NoParams, NoValues, id, 1))

\* --------------------------------------------- callers of the remote service
\* A program that calls the client against the Landscape service, which
\* answers with any status and payload.
RemoteMaps ==
    { [NoValues EXCEPT !["title"] = << <<"new", " ", "script">> >>,
                       !["code"] = << <<"ZWNobyAiSGVsbG8i">> >>],
      [NoValues EXCEPT !["script_id"] = << <<"42">> >>,
                       !["filename"] = << <<"note.txt">> >>] }

CallRemote ==
    /\ pc = "idle"
    /\ cmd' = cmd
    /\ \E typed \in BOOLEAN :
        \/ \E params \in TestParams, values \in RemoteMaps :
               Enter(Call("caller", "InvokeLegacyAction", typed, "remote",
                          params, values, 0, 0))
        \/ \E op \in {"GetScript", "ArchiveScript", "RedactScript"} :
               Enter(Call("caller", op, typed, "remote", NoParams, NoValues,
                          1, 0))
        \/ \E id \in {1, 99} :
               Enter(Call("caller", "GetScriptAttachment", typed, "remote",
                          NoParams, NoValues, id, 1))

\* ------------------------------------------------------- the CLI actions
\* The script ID argument: cmd.Args().First() is "" without arguments.
First(args) == IF Len(args) = 0 THEN "" ELSE args[1]

\* createScriptValues without the script type.
createScriptValuesNoType(title, code, scriptType) ==
    [NoValues EXCEPT !["title"] = <<title>>, !["code"] = <<Base64(code)>>]

\* The parameter maps the actions build from their flags.
createScriptValues(title, code, scriptType) ==
    [NoValues EXCEPT !["title"] = <<title>>,
                     !["code"] = <<Base64(code)>>,
                     !["script_type"] = <<scriptType>>]

editScriptValues(title, code, scriptID) ==
    [NoValues EXCEPT !["title"] = <<title>>,
                     !["code"] = <<Base64(code)>>,
                     !["script_id"] = << <<Itoa(scriptID)>> >>]

createScriptAttachmentValues(scriptID, file) ==
    [NoValues EXCEPT !["script_id"] = << <<Itoa(scriptID)>> >>,
                     !["file"] = <<file>>]

createScriptAction ==
    /\ pc = "idle"
    /\ \E api \in BOOLEAN, title \in CliTitles, code \in Codes,
       scriptType \in {<<"V1">>, <<"V2">>} :
        /\ cmd' = Cmd(api, <<>>)
        /\ IF ~api
           THEN Reject("createScriptAction", "api client not initialized")
           ELSE Enter(Call("createScriptAction", "InvokeLegacyAction", FALSE,
                        "remote", LegacyActionParams(<<"CreateScript">>),
                        createScriptValues(title, code, scriptType), 0, 0))

editScriptAction ==
    /\ pc = "idle"
    /\ \E api \in BOOLEAN, args \in CliArgs, title \in CliTitles, code \in Codes :
        /\ cmd' = Cmd(api, args)
        /\ IF ~api
           THEN Reject("editScriptAction", "api not initialized")
           ELSE IF Len(args) = 0 \/ First(args) = ""
           THEN Reject("editScriptAction",
                       "script ID must be provided as the first argument")
           ELSE IF ~AtoiOk(First(args))
           THEN Reject("editScriptAction", "couldn't convert script ID to string")
           ELSE Enter(Call("editScriptAction", "InvokeLegacyAction", FALSE,
                           "remote", LegacyActionParams(<<"EditScript">>),
                           editScriptValues(title, code, Atoi(First(args))), 0, 0))

getScriptAction ==
    /\ pc = "idle"
    /\ \E api \in BOOLEAN, args \in CliArgs :
        /\ cmd' = Cmd(api, args)
        /\ IF ~api
           THEN Reject("getScriptAction", "api client not initialized")
           ELSE IF Len(args) = 0 \/ First(args) = ""
           THEN Reject("getScriptAction",
                       "script ID must be provided as the first argument")
           ELSE IF ~AtoiOk(First(args))
           THEN Reject("getScriptAction", "couldn't convert script ID to string")
           ELSE Enter(Call("getScriptAction", "GetScript", FALSE, "remote",
                           NoParams, NoValues, Atoi(First(args)), 0))

getScriptAttachmentAction ==
    /\ pc = "idle"
    /\ \E api \in BOOLEAN, scriptID \in CliIds, attachmentID \in CliIds :
        /\ cmd' = Cmd(api, <<>>)
        /\ IF ~api
           THEN Reject("getScriptAttachmentAction", "api client not initialized")
           ELSE Enter(Call("getScriptAttachmentAction", "GetScriptAttachment",
                           FALSE, "remote", NoParams, NoValues, scriptID,
                           attachmentID))

createScriptAttachmentAction ==
    /\ pc = "idle"
    /\ \E api \in BOOLEAN, scriptID \in CliIds :
        /\ cmd' = Cmd(api, <<>>)
        /\ IF ~api
           THEN Reject("createScriptAttachmentAction", "api client not initialized")
           ELSE Enter(Call("createScriptAttachmentAction", "InvokeLegacyAction",
                           FALSE, "remote",
                           LegacyActionParams(<<"CreateScriptAttachment">>),
                           createScriptAttachmentValues(
                               scriptID, <<"note.txt", "$", "$", "Zm9v">>), 0, 0))

\* ----------------------------------------------------------- the round trip
\* The client call: the request is built, edited and handed to the
\* transport.
Do ==
    /\ pc = "call"
    /\ wire' = Append(wire, BuildRequest(call))
    /\ pc' = "inflight"
    /\ UNCHANGED <<call, failed, resp, ret, exit, out, acc, cmd>>

\* The network call fails: connection refused, timeout, TLS failure.
TransportError ==
    /\ pc = "inflight"
    /\ failed' = TRUE
    /\ resp' = NoResp
    /\ pc' = "returned"
    /\ UNCHANGED <<call, wire, ret, exit, out, acc, cmd>>

\* The test server answers the request.
ServeHTTPTest ==
    /\ pc = "inflight"
    /\ call.server = "httptest"
    /\ failed' = FALSE
    /\ resp' = ServeMux(call.entry, wire[Len(wire)])
    /\ pc' = "returned"
    /\ UNCHANGED <<call, wire, ret, exit, out, acc, cmd>>

\* The remote service answers the request.
ServeRemote ==
    /\ pc = "inflight"
    /\ call.server = "remote"
    /\ failed' = FALSE
    /\ resp' \in RemoteResponses
    /\ pc' = "returned"
    /\ UNCHANGED <<call, wire, ret, exit, out, acc, cmd>>

\* cliAfterCall calling the client again on an error.
cliAfterCallRetry(err) == IF err # "" THEN "call" ELSE "write"

\* cliAfterCall going on to write whatever the client call returned.
cliAfterCallAlwaysWrite(err) == "write"

\* Where a CLI action goes once its client call returned err: it returns
\* the error, or goes on to write the response.
cliAfterCall(err) == IF err # "" THEN "done" ELSE "write"

\* The error a CLI action returns for the error of its client call.
cliError(entry, err) ==
    IF entry = "getScriptAttachmentAction"
    THEN "failed to get script attachment: " \o err
    ELSE err

\* The client call returns to its caller.
Return ==
    /\ pc = "returned"
    /\ ret' = IF call.typed THEN TypedReturn(call.op, failed, resp)
                            ELSE RawReturn(failed, resp)
    /\ IF call.entry \in CliEntries
       THEN /\ pc' = cliAfterCall(ret'.err)
            /\ exit' = IF ret'.err # "" /\ pc' = "done"
                       THEN cliError(call.entry, ret'.err) ELSE exit
       ELSE /\ pc' = "done"
            /\ exit' = exit
    /\ UNCHANGED <<call, wire, failed, resp, out, acc, cmd>>

\* WriteResponseToRoot: the response goes to the output, the action returns.
WriteResponseToRoot ==
    /\ pc = "write"
    /\ out' = Append(out, ret.StatusCode)
    /\ exit' = ""
    /\ pc' = "done"
    /\ UNCHANGED <<call, wire, failed, resp, ret, acc, cmd>>

\* ------------------------------------------------- accessors of a payload
\* Whether the caller holds a payload union to call an accessor on.
HasUnion ==
    /\ pc \in {"done", "decoded"}
    /\ call.typed
    /\ call.op \in {"InvokeLegacyAction", "GetScript"}
    /\ ret.JSON200 # NilDoc

CallAccessor(fn, res) ==
    /\ HasUnion
    /\ acc' = [fn |-> fn, res |-> res]
    /\ pc' = "decoded"
    /\ UNCHANGED <<call, wire, failed, resp, ret, exit, out, cmd>>

CallAsV1Script == CallAccessor("AsV1Script", AsV1Script(ret.JSON200))

CallAsV2Script == CallAccessor("AsV2Script", AsV2Script(ret.JSON200))

CallAsLegacyScriptAttachment ==
    /\ call.op = "InvokeLegacyAction"
    /\ CallAccessor("AsLegacyScriptAttachment",
                    AsLegacyScriptAttachment(ret.JSON200))

Next ==
    \/ TestInvokeLegacyAction
    \/ TestGetScript
    \/ TestArchiveAndRedactScript
    \/ TestGetScriptAttachment
    \/ CallRemote
    \/ createScriptAction
    \/ editScriptAction
    \/ getScriptAction
    \/ getScriptAttachmentAction
    \/ createScriptAttachmentAction
    \/ Do
    \/ TransportError
    \/ ServeHTTPTest
    \/ ServeRemote
    \/ Return
    \/ WriteResponseToRoot
    \/ CallAsV1Script
    \/ CallAsV2Script
    \/ CallAsLegacyScriptAttachment

Spec == Init /\ [][Next]_vars

\* ------------------------------------------------- the example programs
\* cmd/examples: one program creates a V2 script, the other a V1 script, and
\* each then edits the script it created.
ExampleEntries == {"exampleV2", "exampleV1"}

ScriptTypeOf(program) == IF program = "exampleV2" THEN <<"V2">> ELSE <<"V1">>

\* The parameter maps of the two calls; "rand" is the text of rand.Text().
exampleCreateValues(program) ==
    [NoValues EXCEPT !["title"] = << <<"rand">> >>,
                     !["code"] = << <<"IyEvYmluL2Jhc2g">> >>,
                     !["script_type"] = <<ScriptTypeOf(program)>>]

exampleEditValues(id) ==
    [NoValues EXCEPT !["script_id"] = << <<Itoa(id)>> >>,
                     !["username"] = << <<"jim">> >>,
                     !["code"] = << <<"IyEvYmluL2Jhc2g">> >>]

\* AsScriptResult: the script union held by a legacy result, which keeps any
\* JSON value.
AsScriptResult(raw) ==
    IF ValidJSON(raw) THEN [NoScript EXCEPT !.err = ""] ELSE NoScript

\* log.Fatalf: the program prints msg and exits.
Fatalln(msg) ==
    /\ pc' = "fatal"
    /\ exit' = msg

Creating == call.entry \in ExampleEntries /\ call.params.Action = <<"CreateScript">>

Editing == call.entry \in ExampleEntries /\ call.params.Action = <<"EditScript">>

\* main, up to the call that creates the script.
main ==
    /\ pc = "idle"
    /\ \E program \in ExampleEntries, baseURL \in BOOLEAN, ak \in BOOLEAN,
          sk \in BOOLEAN, clientOk \in BOOLEAN :
        IF ~baseURL \/ ~ak \/ ~sk \/ ~clientOk
        THEN /\ Fatalln(IF ~baseURL THEN "base URL not set"
                        ELSE IF ~ak THEN "access key not set"
                        ELSE IF ~sk THEN "secret key not set"
                        ELSE "failed to create Landscape API client")
             /\ call' = [NoCall EXCEPT !.entry = program]
             /\ UNCHANGED <<wire, failed, resp, ret, out, acc, cmd>>
        ELSE /\ pc' = "call"
             /\ call' = Call(program, "InvokeLegacyAction", TRUE, "remote",
                             LegacyActionParams(<<"CreateScript">>),
                             exampleCreateValues(program), 0, 0)
             /\ UNCHANGED <<wire, failed, resp, ret, exit, out, acc, cmd>>

\* The create call returns: any error is fatal, and so is a 404 envelope
\* without a payload; everything else goes on to AsScriptResult.
exampleCreateReturned ==
    /\ pc = "returned"
    /\ Creating
    /\ ret' = TypedReturn(call.op, failed, resp)
    /\ IF ret'.err # ""
       THEN Fatalln("failed to invoke legacy action")
       ELSE IF ret'.JSON200 = NilDoc /\ ret'.JSON404.set
       THEN Fatalln("error getting script")
       ELSE pc' = "AsScriptResult" /\ exit' = exit
    /\ UNCHANGED <<call, wire, failed, resp, out, acc, cmd>>

\* The edit call returns: any error is fatal, and so is a nil payload.
exampleEditReturned ==
    /\ pc = "returned"
    /\ Editing
    /\ ret' = TypedReturn(call.op, failed, resp)
    /\ IF ret'.err # ""
       THEN Fatalln("failed to invoke legacy action")
       ELSE IF ret'.JSON200 = NilDoc
       THEN Fatalln("failed to edit script")
       ELSE pc' = "AsScriptResult" /\ exit' = exit
    /\ UNCHANGED <<call, wire, failed, resp, out, acc, cmd>>

\* JSON200.AsScriptResult(): through a nil JSON200 the call dereferences a
\* nil pointer and the program panics.
exampleAsScriptResult ==
    /\ pc = "AsScriptResult"
    /\ IF ret.JSON200 = NilDoc
       THEN /\ pc' = "panic"
            /\ exit' = "nil pointer dereference"
            /\ acc' = acc
       ELSE /\ acc' = [fn |-> "AsScriptResult", res |-> AsScriptResult(ret.JSON200)]
            /\ IF acc'.res.err # ""
               THEN Fatalln("failed to parse response as script")
               ELSE pc' = "AsScript" /\ exit' = exit
    /\ UNCHANGED <<call, wire, failed, resp, ret, out, cmd>>

\* The variant accessor: AsV1Script on the created script in both programs,
\* and on the edited script AsV2Script in the V2 program, AsV1Script in the
\* V1 program.  The created script's id goes into the edit call.
exampleAsScript ==
    /\ pc = "AsScript"
    /\ acc' = IF Editing /\ call.entry = "exampleV2"
              THEN [fn |-> "AsV2Script", res |-> AsV2Script(ret.JSON200)]
              ELSE [fn |-> "AsV1Script", res |-> AsV1Script(ret.JSON200)]
    /\ IF acc'.res.err # ""
       THEN /\ Fatalln(IF Creating
                       THEN IF call.entry = "exampleV2"
                            THEN "failed to parse response as V2 script"
                            ELSE "failed to parse response as V1 script"
                       ELSE IF call.entry = "exampleV2"
                            THEN "failed to script as V2 script"
                            ELSE "failed to script as V1 script")
            /\ call' = call
       ELSE IF Creating
       THEN /\ pc' = "call"
            /\ call' = Call(call.entry, "InvokeLegacyAction", TRUE, "remote",
                            LegacyActionParams(<<"EditScript">>),
                            exampleEditValues(acc'.res.Id), 0, 0)
            /\ exit' = exit
       ELSE /\ pc' = "print"
            /\ exit' = exit
            /\ call' = call
    /\ UNCHANGED <<wire, failed, resp, ret, out, cmd>>

\* The members the program dereferences when the edited script names who
\* created it: CreatedBy.Id and .Name in the V2 program, Creator.Email, .Id
\* and .Name in the V1 program.
Dereferenced(program) ==
    IF program = "exampleV2" THEN {"id", "name"} ELSE {"email", "id", "name"}

CreatedByOf(program, script) ==
    IF program = "exampleV2" THEN script.CreatedBy ELSE script.Creator

\* The end of main: the edited script is printed.  Dereferencing a member
\* the payload did not carry is a nil-pointer panic.
examplePrint ==
    /\ pc = "print"
    /\ IF /\ CreatedByOf(call.entry, acc.res) # "nil"
          /\ ~(Dereferenced(call.entry) \subseteq acc.res.Has)
       THEN /\ pc' = "panic"
            /\ exit' = "nil pointer dereference"
       ELSE /\ pc' = "exited"
            /\ exit' = ""
    /\ UNCHANGED <<call, wire, failed, resp, ret, out, acc, cmd>>

NextExample ==
    \/ main
    \/ Do
    \/ TransportError
    \/ ServeRemote
    \/ exampleCreateReturned
    \/ exampleEditReturned
    \/ exampleAsScriptResult
    \/ exampleAsScript
    \/ examplePrint

SpecExample == Init /\ [][NextExample]_vars

\* ---------------------------------------------------------------- claims
\* The client call of the invocation has been made.
Called == pc \in {"inflight", "returned", "write", "decoded"}
          \/ (pc = "done" /\ call.op # "none")

\* The client call of the invocation has returned to its caller.
Returned == pc \in {"write", "decoded"} \/ (pc = "done" /\ call.op # "none")

Legacy == call.op = "InvokeLegacyAction"

\* The caller's map names neither version nor action.
NamesNeither == call.values["version"] = <<>> /\ call.values["action"] = <<>>

\* The union of {version, action} and the values the caller supplied: under
\* each name the caller's values, and the value of the call itself unless
\* the caller supplied the same one.
Own(k) ==
    IF k = "version" THEN <<call.params.Version>>
    ELSE IF k = "action" THEN <<call.params.Action>>
    ELSE <<>>

ExpectedQuery ==
    [k \in Keys |->
        IF \E i \in 1..Len(call.values[k]) : <<call.values[k][i]>> = Own(k)
        THEN call.values[k]
        ELSE Own(k) \o call.values[k]]

C2_ErrorIffTransportFails ==
    Returned /\ Legacy /\ ~call.typed =>
        /\ (ret.err # "") <=> failed
        /\ ~failed => /\ ret.hasResp
                      /\ ret.err = ""
                      /\ ret.StatusCode = resp.status
        /\ ~(ret.hasResp /\ ret.err # "")

C2_Witness ==
    /\ Returned /\ Legacy /\ ~call.typed
    /\ ~failed
    /\ resp.status = 500
    /\ ret.StatusCode = 500
    /\ ret.err = ""

\* C3: an invocation that reached its client call hands exactly one request
\* to the transport, whatever the transport or the server answers, and an
\* invocation never hands it a second one; the request of a legacy action
\* is a POST.
C3_ExactlyOneRequest ==
    /\ Len(wire) <= 1
    /\ Called => Len(wire) = 1
    /\ \A i \in 1..Len(wire) : Legacy => wire[i].method = "POST"

C3_Witness ==
    /\ pc = "done"
    /\ call.entry = "createScriptAction"
    /\ failed
    /\ exit = "transport"
    /\ Len(wire) = 1

\* C4: a raw InvokeLegacyAction with an empty version or an empty action is
\* still sent, and the 400 of the test server comes back as the status of
\* the raw response, with a nil error.
C4_NoPreValidation ==
    /\ Legacy /\ call.server = "httptest"
    /\ call.params.Version = <<>> \/ call.params.Action = <<>>
    /\ ~call.typed
    /\ Returned /\ ~failed
    => /\ Len(wire) = 1
       /\ ret.hasResp
       /\ ret.StatusCode = 400
       /\ ret.err = ""

C4_Witness ==
    /\ Legacy /\ call.server = "httptest"
    /\ call.params.Version = <<>>
    /\ call.params.Action = <<"CreateScript">>
    /\ ~call.typed
    /\ Returned /\ ~failed
    /\ ret.StatusCode = 400

\* A typed call has returned the response the transport delivered.
TypedReturned == Returned /\ call.typed /\ ~failed

\* The server sent a JSON object with an integer id and a string title.
SentScript ==
    /\ resp.sent.k = "obj"
    /\ resp.sent.f["id"].k = "num"
    /\ resp.sent.f["title"].k = "str"

\* The accessor returned a script with the id and the title the server sent.
YieldsSent ==
    /\ acc.res.err = ""
    /\ acc.res.Id = resp.sent.f["id"].n
    /\ acc.res.Title = resp.sent.f["title"].s

C6_AttachmentAccessor ==
    acc.fn = "AsLegacyScriptAttachment" =>
        /\ resp.sent.k = "str" => acc.res.err = "" /\ acc.res.Text = resp.sent.s
        /\ resp.sent.k \in {"obj", "arr"} => acc.res.err # ""
        /\ call.server = "httptest"
           /\ call.params = LegacyActionParams(<<"CreateScriptAttachment">>)
           => acc.res.err = "" /\ acc.res.Text = <<"note.txt">>

C6_Witness ==
    /\ acc.fn = "AsLegacyScriptAttachment"
    /\ resp.sent = StrDoc(<<"a", "&">>)
    /\ acc.res.err = ""
    /\ acc.res.Text = <<"a", "&">>

\* C7: a typed call answered 204 returns an empty body, a nil JSON200, no
\* error, and decoded nothing; the typed archive, redact and legacy remove
\* calls on the test server are answered 204.
C7_NoContent ==
    /\ TypedReturned /\ resp.status = 204
       => /\ ret.StatusCode = 204
          /\ ret.Body = EmptyBody
          /\ ret.JSON200 = NilDoc
          /\ ~ret.decoded
          /\ ret.err = ""
    /\ TypedReturned /\ call.server = "httptest"
       /\ \/ call.op \in {"ArchiveScript", "RedactScript"}
          \/ call.params \in {LegacyActionParams(<<"RemoveScript">>),
                              LegacyActionParams(<<"RemoveScriptAttachment">>)}
       => ret.StatusCode = 204 /\ ret.Body = EmptyBody /\ ret.err = ""

C7_Witness ==
    /\ TypedReturned /\ resp.status = 204
    /\ call.op = "ArchiveScript"
    /\ call.server = "httptest"
    /\ ret.Body = EmptyBody
    /\ ret.err = ""

\* C8: a typed call answered 404 with a JSON object that has a message
\* string returns a non-nil JSON404 with that message, a nil JSON200 and no
\* error, and with a JSON object without message a non-nil JSON404 with a
\* nil message; the attachment of script 99 on the test server is "not
\* found".
C8_NotFoundEnvelope ==
    /\ TypedReturned /\ resp.status = 404
       /\ resp.sent.k = "obj" /\ resp.sent.f["message"].k = "str"
       => /\ ret.JSON404.set
          /\ ret.JSON404.hasMessage
          /\ ret.JSON404.Message = resp.sent.f["message"].s
          /\ ret.JSON200 = NilDoc
          /\ ret.err = ""
    /\ TypedReturned /\ resp.status = 404
       /\ resp.sent.k = "obj" /\ resp.sent.f["message"].k = "absent"
       => /\ ret.JSON404.set
          /\ ~ret.JSON404.hasMessage
          /\ ret.JSON200 = NilDoc
          /\ ret.err = ""
    /\ TypedReturned /\ call.op = "GetScriptAttachment" /\ call.id = 99
       /\ call.server = "httptest"
       => /\ ret.StatusCode = 404
          /\ ret.JSON404.set
          /\ ret.JSON404.hasMessage
          /\ ret.JSON404.Message = <<"not", " ", "found">>

C8_Witness ==
    /\ TypedReturned /\ resp.status = 404
    /\ call.server = "remote"
    /\ resp.sent.f["message"] = Str(<<"a", "&">>)
    /\ ret.JSON404.Message = <<"a", "&">>
    /\ ret.err = ""

\* The payload the server sent has id and title and nothing that tells the
\* variants apart.
SentAmbiguous ==
    /\ SentScript
    /\ resp.sent.f["creator"].k = "absent"
    /\ resp.sent.f["created_by"].k = "absent"
    /\ resp.sent.f["attachments"].k = "absent"

\* The payload the server sent is a V2 script: created_by, no creator, and
\* attachments, if any, as attachment objects.
SentV2 ==
    /\ SentScript
    /\ resp.sent.f["created_by"].k = "obj"
    /\ resp.sent.f["creator"].k = "absent"
    /\ resp.sent.f["attachments"].k \in {"absent", "arrEmpty", "arrObj"}

NoOptionals ==
    /\ acc.res.Creator = "nil"
    /\ acc.res.CreatedBy = "nil"
    /\ acc.res.Attachments = "nil"

Echoing ==
    /\ Legacy /\ call.server = "httptest"
    /\ call.params.Version = Version
    /\ call.params.Action \in {<<"CreateScript">>, <<"EditScript">>,
                                <<"CopyScript">>}

EchoedName ==
    IF call.params.Action = <<"CopyScript">> THEN "destination_title" ELSE "title"

\* The value the caller put into the map under the echoed name.
PutIn == Get(call.values, EchoedName)

\* C11 as stated: for every parameter map, the title the caller decodes
\* from the echo of the test server is byte-identical to the value it put
\* into the map.
C11_AsStated ==
    Echoing /\ acc.fn = "AsV1Script" =>
        acc.res.err = "" /\ acc.res.Title = PutIn

\* C11: for every parameter map, the value the server reads from the query
\* is byte-identical to the value the caller put into the map; and when
\* that value is valid UTF-8, so is the title the caller decodes from the
\* server's echo, an invalid byte coming back as the replacement rune.
C11_RoundTrip ==
    /\ Echoing /\ Len(wire) = 1
       => Get(ParseQuery(wire[1].rawQuery), EchoedName) = PutIn
    /\ Echoing /\ acc.fn = "AsV1Script"
       => /\ acc.res.err = ""
          /\ acc.res.Title = ToValidUTF8(PutIn)
          /\ IsValidUTF8(PutIn) => acc.res.Title = PutIn

C11_Witness ==
    /\ Echoing /\ acc.fn = "AsV1Script"
    /\ call.params.Action = <<"CopyScript">>
    /\ PutIn = <<" ", "%">>
    /\ wire[1].rawQuery # <<>>
    /\ acc.res.err = ""
    /\ acc.res.Id = 99
    /\ acc.res.Title = <<" ", "%">>

\* A CLI action has been run.
CliRan == call.entry \in CliEntries

\* The script ID argument is missing, empty or not an integer.
BadScriptID ==
    \/ Len(cmd.args) = 0
    \/ cmd.args[1] \in {"", "abc", "1.5"}

\* The action returned an error, sent no request and wrote nothing.
RejectedLocally ==
    /\ pc = "done"
    /\ exit \notin {"none", ""}
    /\ wire = <<>>
    /\ ~Called
    /\ out = <<>>

\* C13: a CLI script action run without the API client in its context, and
\* an edit or get action run with a script ID argument that is missing,
\* empty or not an integer, returns an error without any request having
\* been handed to the transport; and an action that sent no request by the
\* time it returned was run with one of these.
C13_ValidationBeforeNetwork ==
    /\ CliRan /\ ~cmd.api => RejectedLocally
    /\ CliRan /\ call.entry \in {"editScriptAction", "getScriptAction"}
       /\ BadScriptID
       => RejectedLocally
    /\ CliRan /\ pc = "done" /\ wire = <<>>
       => \/ ~cmd.api
          \/ call.entry \in {"editScriptAction", "getScriptAction"} /\ BadScriptID

C13_Witness ==
    /\ call.entry = "editScriptAction"
    /\ cmd = Cmd(TRUE, <<"abc">>)
    /\ pc = "done"
    /\ exit = "couldn't convert script ID to string"
    /\ wire = <<>>

\* C16: a CLI action writes at most one response, and only the response of
\* a client call that returned without error; every step that writes is
\* taken after that return; and when the client call returned a transport
\* error the action has written nothing and returns that error, wrapped by
\* getScriptAttachmentAction.
C16_WriteOnlyAfterSuccess ==
    /\ Len(out) <= 1
    /\ out # <<>>
       => /\ CliRan /\ pc = "done"
          /\ ~failed
          /\ ret.hasResp /\ ret.err = ""
          /\ out = <<ret.StatusCode>>
          /\ ret.StatusCode = resp.status
          /\ exit = ""
    /\ pc = "write" => CliRan /\ ~failed /\ ret.hasResp /\ ret.err = "" /\ out = <<>>
    /\ CliRan /\ failed /\ pc = "done"
       => /\ out = <<>>
          /\ exit = IF call.entry = "getScriptAttachmentAction"
                    THEN "failed to get script attachment: transport"
                    ELSE "transport"

C16_Witness ==
    /\ call.entry = "getScriptAttachmentAction"
    /\ failed
    /\ pc = "done"
    /\ Len(wire) = 1
    /\ exit = "failed to get script attachment: transport"
    /\ out = <<>>

\* C17 as stated: the example calls AsScriptResult on JSON200 only when
\* JSON200 is non-nil, and reaches the edit call only after the create
\* response was decoded from a 200 payload.
C17_AsStated ==
    /\ pc = "AsScriptResult" => ret.JSON200 # NilDoc
    /\ pc = "call" /\ Editing
       => /\ resp.status = 200
          /\ ret.JSON200 # NilDoc
          /\ acc.fn = "AsV1Script" /\ acc.res.err = ""
          /\ call.values["script_id"] = << <<Itoa(resp.sent.f["id"].n)>> >>
====
